---- MODULE Spec2Model ----
(***************************************************************************)
(* Model of tantivy's SegmentManager (src/src/indexer/segment_manager.rs). *)
(*                                                                         *)
(* The manager owns two segment registers (uncommitted, committed) and the *)
(* set of segments being written, behind one RwLock.  Every step of the    *)
(* model is one critical section of the code, i.e. the span during which   *)
(* one lock guard is held.  Most operations are a single critical section. *)
(* Two are not:                                                            *)
(*   - commit computes its entries by calling segment_state once per meta  *)
(*     (one read guard each, lines 131-141) and only then takes the write  *)
(*     guard (lines 142-147);                                              *)
(*   - segment_entries takes two read guards in a row (lines 63-70).       *)
(* These are modelled as threads with a program counter, so that other     *)
(* operations can run between their critical sections.                     *)
(*                                                                         *)
(* SegmentRegister, SegmentEntry and SegmentMeta are collaborators whose   *)
(* code is not part of the sources at hand; they are modelled from their   *)
(* documented contract.                                                    *)
(***************************************************************************)
EXTENDS Integers, Sequences, FiniteSets, TLC

(***************************************************************************)
(* Bounds                                                                  *)
(***************************************************************************)
\* longest metadata list handed to commit
MaxCommit == 2

\* segment identifiers of the full model
SegmentIds == {"A", "B"}
\* segment identifiers of the models that carry a call history
HistoryIds == {"A"}

(***************************************************************************)
(* Collaborator types: SegmentState, SegmentMeta, SegmentEntry             *)
(***************************************************************************)
Ready == "Ready"
InMerge == "InMerge"
SegmentState == {Ready, InMerge}

\* Option::None of an Option<SegmentState>
None == "None"
\* Option::None of an Option<SegmentEntry>
NoEntry == [none |-> TRUE]

SegmentMeta_new(segment_id) == [segment_id |-> segment_id]

SegmentEntry_new(segment_meta) == [meta |-> segment_meta, state |-> Ready]

set_state(entry, state) == [entry EXCEPT !.state = state]

entry_segment_id(entry) == entry.meta.segment_id

\* the components a segment is stored as, one file each
SegmentComponents == {"idx", "store"}

\* SegmentMeta::list_files: the paths of the files of one segment
SegmentMeta_list_files(segment_meta) ==
    {<<segment_meta.segment_id, component>> : component \in SegmentComponents}

\* the path of the index's metadata file
META_FILEPATH == <<"meta", "json">>

(***************************************************************************)
(* Collaborator: SegmentRegister, a map segment id -> segment entry        *)
(***************************************************************************)
Register_default == [id \in {} |-> SegmentEntry_new(SegmentMeta_new(id))]

Register_clear(register) == Register_default

Register_add_segment_entry(register, entry) ==
    [id \in DOMAIN register \cup {entry_segment_id(entry)} |->
        IF id = entry_segment_id(entry) THEN entry ELSE register[id]]

Register_remove_segment(register, segment_id) ==
    [id \in DOMAIN register \ {segment_id} |-> register[id]]

Register_contains_all(register, segment_ids) ==
    \A i \in 1..Len(segment_ids) : segment_ids[i] \in DOMAIN register

Register_start_merge(register, segment_id) ==
    [register EXCEPT ![segment_id] = set_state(@, InMerge)]

Register_segment_entry(register, segment_id) ==
    IF segment_id \in DOMAIN register THEN register[segment_id] ELSE NoEntry

Register_segment_ids(register) == DOMAIN register

Register_segment_entries(register) == {register[id] : id \in DOMAIN register}

Register_get_segments(register) == {register[id].meta : id \in DOMAIN register}

Register_segment_metas(register) == {register[id].meta : id \in DOMAIN register}

(***************************************************************************)
(* SegmentRegisters and the operations of SegmentManager, as functions of  *)
(* the registers they lock.                                                *)
(***************************************************************************)
SegmentRegisters_default ==
    [uncommitted |-> Register_default,
     committed   |-> Register_default,
     writing     |-> {}]

segment_entry(r, segment_id) ==
    LET found == Register_segment_entry(r.committed, segment_id)
    IN  IF found # NoEntry THEN found
        ELSE Register_segment_entry(r.uncommitted, segment_id)

segment_state(r, segment_id) ==
    LET found == segment_entry(r, segment_id)
    IN  IF found # NoEntry THEN found.state ELSE None

get_segments(r) ==
    <<Register_get_segments(r.committed), Register_get_segments(r.uncommitted)>>

\* segment_entries when no other thread runs during it
segment_entries(r) ==
    <<Register_segment_entries(r.uncommitted), Register_segment_entries(r.committed)>>

committed_segment_metas(r) == Register_segment_metas(r.committed)

\* faulty list_files: the segments being written are forgotten
list_files_without_writing(r) ==
    LET segment_metas == Register_get_segments(r.committed)
                            \cup Register_get_segments(r.uncommitted)
    IN  {META_FILEPATH}
            \cup UNION {SegmentMeta_list_files(m) : m \in segment_metas}

list_files(r) ==
    LET segment_metas == Register_get_segments(r.committed)
                            \cup Register_get_segments(r.uncommitted)
                            \cup {SegmentMeta_new(id) : id \in r.writing}
    IN  {META_FILEPATH}
            \cup UNION {SegmentMeta_list_files(m) : m \in segment_metas}

\* faulty rollback: the identifiers are collected after the register is cleared
rollback_ids_after_clear(r) ==
    [registers |-> [r EXCEPT !.uncommitted = Register_clear(@)],
     result    |-> Register_segment_ids(Register_clear(r.uncommitted))]

\* rollback: the registers it leaves and the identifiers it returns
rollback(r) ==
    [registers |-> [r EXCEPT !.uncommitted = Register_clear(@)],
     result    |-> Register_segment_ids(r.uncommitted)]

\* commit, lines 133-140: the entry built for one incoming meta
commit_entry(r, segment_meta) ==
    LET known == segment_state(r, segment_meta.segment_id)
    IN  IF known # None
        THEN set_state(SegmentEntry_new(segment_meta), known)
        ELSE SegmentEntry_new(segment_meta)

RECURSIVE add_segment_entries(_, _)
add_segment_entries(register, entries) ==
    IF entries = << >> THEN register
    ELSE add_segment_entries(
            Register_add_segment_entry(register, Head(entries)),
            Tail(entries))

\* faulty commit: the uncommitted register is not cleared
commit_write_keeps_uncommitted(r, committed_segment_entries) ==
    [r EXCEPT !.committed =
                  add_segment_entries(Register_clear(@), committed_segment_entries)]

\* faulty commit: the writing set is cleared with the uncommitted register
commit_write_clears_writing(r, committed_segment_entries) ==
    [r EXCEPT !.committed =
                  add_segment_entries(Register_clear(@), committed_segment_entries),
              !.uncommitted = Register_clear(@),
              !.writing = {}]

\* commit, lines 142-147: the critical section under the write guard
commit_write(r, committed_segment_entries) ==
    [r EXCEPT !.committed =
                  add_segment_entries(Register_clear(@), committed_segment_entries),
              !.uncommitted = Register_clear(@)]

RECURSIVE start_merge_each(_, _)
start_merge_each(register, segment_ids) ==
    IF segment_ids = << >> THEN register
    ELSE start_merge_each(Register_start_merge(register, Head(segment_ids)),
                          Tail(segment_ids))

\* faulty start_merge: marks whatever it finds, in either register
start_merge_unchecked(r, segment_ids) ==
    LET present(register) ==
            SelectSeq(segment_ids, LAMBDA id : id \in DOMAIN register)
    IN  [r EXCEPT !.uncommitted = start_merge_each(@, present(@)),
                  !.committed = start_merge_each(@, present(@))]

start_merge(r, segment_ids) ==
    IF Register_contains_all(r.uncommitted, segment_ids)
    THEN [r EXCEPT !.uncommitted = start_merge_each(@, segment_ids)]
    ELSE IF Register_contains_all(r.committed, segment_ids)
    THEN [r EXCEPT !.committed = start_merge_each(@, segment_ids)]
    ELSE r

\* faulty write_segment: the segment is made visible before it is finished
write_segment_uncommitted(r, segment_id) ==
    [r EXCEPT !.writing = @ \cup {segment_id},
              !.uncommitted = Register_add_segment_entry(
                                  @, SegmentEntry_new(SegmentMeta_new(segment_id)))]

write_segment(r, segment_id) ==
    [r EXCEPT !.writing = @ \cup {segment_id}]

\* faulty add_segment: the entry is put in the committed register
add_segment_to_committed(r, entry) ==
    [r EXCEPT !.writing = @ \ {entry_segment_id(entry)},
              !.committed = Register_add_segment_entry(@, entry)]

\* faulty add_segment: an entry that is already there is kept
add_segment_if_absent(r, entry) ==
    [r EXCEPT !.writing = @ \ {entry_segment_id(entry)},
              !.uncommitted =
                  IF entry_segment_id(entry) \in Register_segment_ids(@) THEN @
                  ELSE Register_add_segment_entry(@, entry)]

\* faulty add_segment: the identifier stays in the writing set
add_segment_keeps_writing(r, entry) ==
    [r EXCEPT !.uncommitted = Register_add_segment_entry(@, entry)]

add_segment(r, entry) ==
    [r EXCEPT !.writing = @ \ {entry_segment_id(entry)},
              !.uncommitted = Register_add_segment_entry(@, entry)]

RECURSIVE remove_segment_each(_, _)
remove_segment_each(register, segment_ids) ==
    IF segment_ids = << >> THEN register
    ELSE remove_segment_each(Register_remove_segment(register, Head(segment_ids)),
                             Tail(segment_ids))

\* end_merge, line 180
merged_segment_ids(merged_segment_metas) ==
    [i \in 1..Len(merged_segment_metas) |-> merged_segment_metas[i].segment_id]

\* faulty end_merge: inputs that are in neither register as a whole are
\* removed from wherever they are, and the output goes to uncommitted
end_merge_unchecked(r, merged_segment_metas, merged_segment_entry) ==
    LET ids == merged_segment_ids(merged_segment_metas)
    IN  IF Register_contains_all(r.uncommitted, ids)
        THEN [r EXCEPT !.uncommitted =
                 Register_add_segment_entry(remove_segment_each(@, ids),
                                            merged_segment_entry)]
        ELSE IF Register_contains_all(r.committed, ids)
        THEN [r EXCEPT !.committed =
                 Register_add_segment_entry(remove_segment_each(@, ids),
                                            merged_segment_entry)]
        ELSE [r EXCEPT !.uncommitted =
                 Register_add_segment_entry(remove_segment_each(@, ids),
                                            merged_segment_entry),
                       !.committed = remove_segment_each(@, ids)]

\* faulty end_merge: the output of a merge of committed segments is put in
\* the uncommitted register
end_merge_output_uncommitted(r, merged_segment_metas, merged_segment_entry) ==
    LET ids == merged_segment_ids(merged_segment_metas)
    IN  IF Register_contains_all(r.uncommitted, ids)
        THEN [r EXCEPT !.uncommitted =
                 Register_add_segment_entry(remove_segment_each(@, ids),
                                            merged_segment_entry)]
        ELSE IF Register_contains_all(r.committed, ids)
        THEN [r EXCEPT !.committed = remove_segment_each(@, ids),
                       !.uncommitted =
                           Register_add_segment_entry(@, merged_segment_entry)]
        ELSE r

end_merge(r, merged_segment_metas, merged_segment_entry) ==
    LET ids == merged_segment_ids(merged_segment_metas)
    IN  IF Register_contains_all(r.uncommitted, ids)
        THEN [r EXCEPT !.uncommitted =
                 Register_add_segment_entry(remove_segment_each(@, ids),
                                            merged_segment_entry)]
        ELSE IF Register_contains_all(r.committed, ids)
        THEN [r EXCEPT !.committed =
                 Register_add_segment_entry(remove_segment_each(@, ids),
                                            merged_segment_entry)]
        ELSE r

(***************************************************************************)
(* Sequential meaning of a call: what it does to the registers when no     *)
(* other thread runs during it.                                            *)
(***************************************************************************)
RECURSIVE commit_entries(_, _)
commit_entries(r, segment_metas) ==
    IF segment_metas = << >> THEN << >>
    ELSE <<commit_entry(r, Head(segment_metas))>>
            \o commit_entries(r, Tail(segment_metas))

commit(r, segment_metas) == commit_write(r, commit_entries(r, segment_metas))

Apply(call, r) ==
    CASE call.op = "write_segment" -> write_segment(r, call.segment_id)
      [] call.op = "add_segment"   -> add_segment(r, call.entry)
      [] call.op = "rollback"      -> rollback(r).registers
      [] call.op = "start_merge"   -> start_merge(r, call.segment_ids)
      [] call.op = "end_merge"     ->
            end_merge(r, call.merged_segment_metas, call.merged_segment_entry)
      [] call.op = "commit"        -> commit(r, call.segment_metas)

(***************************************************************************)
(* Block codec: compression_simd.rs                                        *)
(***************************************************************************)
\* the length of a block (128 in the program) and the largest value a block
\* holds (2^32 - 1 in the program)
NUM_DOCS_PER_BLOCK == 2
MaxValue == 4

COMPRESSED_BLOCK_MAX_SIZE == NUM_DOCS_PER_BLOCK * 4 + 1

RECURSIVE Pow(_, _)
Pow(base, n) == IF n = 0 THEN 1 ELSE base * Pow(base, n - 1)

\* the number of bits needed to write x
RECURSIVE NumBits(_)
NumBits(x) == IF x = 0 THEN 0 ELSE 1 + NumBits(x \div 2)

RECURSIVE MaxOf(_)
MaxOf(vals) ==
    IF vals = << >> THEN 0
    ELSE IF Head(vals) > MaxOf(Tail(vals)) THEN Head(vals) ELSE MaxOf(Tail(vals))

\* the differences of consecutive values, the first one taken from the offset
Deltas(vals, offset) ==
    [i \in 1..Len(vals) |-> IF i = 1 THEN vals[1] - offset ELSE vals[i] - vals[i - 1]]

RECURSIVE SumUpTo(_, _)
SumUpTo(vals, n) == IF n = 0 THEN 0 ELSE vals[n] + SumUpTo(vals, n - 1)

PrefixSums(deltas, offset) ==
    [i \in 1..Len(deltas) |-> offset + SumUpTo(deltas, i)]

\* the digits of the values, each num_bits wide, laid one after the other
\* and cut into bytes
RECURSIVE Digits(_, _, _)
Digits(vals, n, base) ==
    IF n = 0 THEN 0 ELSE vals[n] * Pow(base, n - 1) + Digits(vals, n - 1, base)

PackedSize(num_bits) == (NUM_DOCS_PER_BLOCK * num_bits + 7) \div 8

Pack(vals, num_bits) ==
    LET bits == Digits(vals, Len(vals), Pow(2, num_bits))
    IN  [j \in 1..PackedSize(num_bits) |-> (bits \div Pow(256, j - 1)) % 256]

Unpack(bytes, num_bits) ==
    LET bits == Digits(bytes, Len(bytes), 256)
    IN  [i \in 1..NUM_DOCS_PER_BLOCK |->
            (bits \div Pow(2, (i - 1) * num_bits)) % Pow(2, num_bits)]

\* the array with its first elements overwritten
Overwrite(array, written) ==
    [i \in 1..Len(array) |-> IF i <= Len(written) THEN written[i] ELSE array[i]]

\* the native routines: one byte holding the bit width, then the packed
\* values (unsorted) or the packed deltas (sorted)
simdcomp_compress_unsorted(vals, output) ==
    LET num_bits == NumBits(MaxOf(vals))
        written == <<num_bits>> \o Pack(vals, num_bits)
    IN  [output |-> Overwrite(output, written), size |-> Len(written)]

simdcomp_compress_sorted(vals, output, offset) ==
    LET deltas == Deltas(vals, offset)
        num_bits == NumBits(MaxOf(deltas))
        written == <<num_bits>> \o Pack(deltas, num_bits)
    IN  [output |-> Overwrite(output, written), size |-> Len(written)]

simdcomp_uncompress_unsorted(compressed, output) ==
    LET num_bits == compressed[1]
        size == 1 + PackedSize(num_bits)
        vals == Unpack(SubSeq(compressed, 2, size), num_bits)
    IN  [output |-> Overwrite(output, vals), size |-> size]

simdcomp_uncompress_sorted(compressed, output, offset) ==
    LET num_bits == compressed[1]
        size == 1 + PackedSize(num_bits)
        deltas == Unpack(SubSeq(compressed, 2, size), num_bits)
    IN  [output |-> Overwrite(output, PrefixSums(deltas, offset)), size |-> size]

\* lines 29-43: the wrappers around the native routines
compress_sorted(vals, output, offset) == simdcomp_compress_sorted(vals, output, offset)

uncompress_sorted(compressed_data, output, offset) ==
    simdcomp_uncompress_sorted(compressed_data, output, offset)

compress_unsorted(vals, output) == simdcomp_compress_unsorted(vals, output)

uncompress_unsorted(compressed_data, output) ==
    simdcomp_uncompress_unsorted(compressed_data, output)

BlockEncoder_new ==
    [output |-> [i \in 1..COMPRESSED_BLOCK_MAX_SIZE |-> 0], output_len |-> 0]

\* faulty compress_block_sorted: the whole buffer is returned
compress_block_sorted_whole_buffer(encoder, vals, offset) ==
    LET compressed == compress_sorted(vals, encoder.output, offset)
    IN  [encoder |-> [encoder EXCEPT !.output = compressed.output],
         returned |-> compressed.output]

compress_block_sorted(encoder, vals, offset) ==
    LET compressed == compress_sorted(vals, encoder.output, offset)
    IN  [encoder |-> [encoder EXCEPT !.output = compressed.output],
         returned |-> SubSeq(compressed.output, 1, compressed.size)]

compress_block_unsorted(encoder, vals) ==
    LET compressed == compress_unsorted(vals, encoder.output)
    IN  [encoder |-> [encoder EXCEPT !.output = compressed.output],
         returned |-> SubSeq(compressed.output, 1, compressed.size)]

BlockDecoder_new ==
    [output |-> [i \in 1..COMPRESSED_BLOCK_MAX_SIZE |-> 0], output_len |-> 0]

\* faulty uncompress_block_sorted: output_len is not set
uncompress_block_sorted_keeps_len(decoder, compressed_data, offset) ==
    LET uncompressed == uncompress_sorted(compressed_data, decoder.output, offset)
    IN  [decoder |-> [decoder EXCEPT !.output = uncompressed.output],
         returned |-> SubSeq(compressed_data, uncompressed.size + 1,
                             Len(compressed_data))]

uncompress_block_sorted(decoder, compressed_data, offset) ==
    LET uncompressed == uncompress_sorted(compressed_data, decoder.output, offset)
    IN  [decoder |-> [output |-> uncompressed.output,
                      output_len |-> NUM_DOCS_PER_BLOCK],
         returned |-> SubSeq(compressed_data, uncompressed.size + 1,
                             Len(compressed_data))]

uncompress_block_unsorted(decoder, compressed_data) ==
    LET uncompressed == uncompress_unsorted(compressed_data, decoder.output)
    IN  [decoder |-> [output |-> uncompressed.output,
                      output_len |-> NUM_DOCS_PER_BLOCK],
         returned |-> SubSeq(compressed_data, uncompressed.size + 1,
                             Len(compressed_data))]

output_array(decoder) == SubSeq(decoder.output, 1, decoder.output_len)

(***************************************************************************)
(* State                                                                   *)
(***************************************************************************)
VARIABLES
    mode,          \* which model is run: "plain", "order", "reader", "merge"
                   \* or "codec"
    registers,     \* SegmentManager.registers: uncommitted, committed, writing
    committing,    \* the commit call in progress: Idle, or its metas and the
                   \* entries built so far
    reading,       \* the segment_entries call in progress: Idle, or the
                   \* uncommitted entries it has read so far
    last,          \* the step just taken and what it returned
    scen,          \* how far the run has followed the lifecycle scenario
    commit_hist,   \* "order": registers when commit was called, and the calls
                   \* that ran since
    reader_hist,   \* "reader": the (uncommitted, committed) pairs that existed
                   \* since segment_entries was called
    merge_hist,    \* "merge": the identifiers removed so far and those a merge
                   \* has consumed, or Readded once one came back
    codec          \* "codec": the blocks given to a BlockEncoder, the stream
                   \* of its outputs, and the BlockDecoder reading it

\* a thread that is in no call
Idle == [pc |-> "idle"]

\* no BlockEncoder or BlockDecoder exists
NoCodec == [pc |-> "off"]

vars == <<mode, registers, committing, reading, last, scen,
          commit_hist, reader_hist, merge_hist, codec>>

(***************************************************************************)
(* Inputs                                                                  *)
(***************************************************************************)
Ids == IF mode \in {"plain", "merge"} THEN SegmentIds ELSE HistoryIds

Metas == {SegmentMeta_new(id) : id \in Ids}

\* entries handed to add_segment and end_merge: freshly built ones
Entries == {SegmentEntry_new(m) : m \in Metas}

SeqsUpTo(S, n) == UNION {[1..k -> S] : k \in 0..n}

Range(seq) == {seq[i] : i \in 1..Len(seq)}

\* the lists handed to start_merge and end_merge: each segment at most once
MergeLists(S) ==
    {seq \in SeqsUpTo(S, Cardinality(S)) : Cardinality(Range(seq)) = Len(seq)}

(***************************************************************************)
(* The lifecycle scenario and the bookkeeping every step does              *)
(***************************************************************************)
entryA == SegmentEntry_new(SegmentMeta_new("A"))
entryB == SegmentEntry_new(SegmentMeta_new("B"))

ScenarioCalls ==
    << [op |-> "write_segment", segment_id |-> "A"],
       [op |-> "add_segment", entry |-> entryA],
       [op |-> "commit", segment_metas |-> <<SegmentMeta_new("A")>>],
       [op |-> "start_merge", segment_ids |-> <<"A">>],
       [op |-> "end_merge", merged_segment_metas |-> <<SegmentMeta_new("A")>>,
                            merged_segment_entry |-> entryB] >>

ScenarioLen == Len(ScenarioCalls)

\* scen after a call that takes effect in the same step
ScenAfter(call) ==
    IF scen >= 0 /\ scen < ScenarioLen /\ call = ScenarioCalls[scen + 1]
    THEN scen + 1 ELSE -1

\* scen after a commit has been called; its effect comes with CommitWrite
ScenAfterCommitCall(call) ==
    IF scen >= 0 /\ scen < ScenarioLen /\ call = ScenarioCalls[scen + 1]
    THEN scen ELSE -1

Snapshot(r) == <<r.uncommitted, r.committed>>

\* no identifier has been removed yet
NoMerge == [removed |-> {}, spent |-> {}]

\* an identifier was inserted again after it had been removed
Readded == [readded |-> TRUE]

Present(r) == DOMAIN r.uncommitted \cup DOMAIN r.committed

\* the step that leads to registers' inserted these identifiers, and a merge
\* that took effect consumed those
MergeAfter(inserted, consumed) ==
    merge_hist' =
        IF mode # "merge" \/ merge_hist = Readded THEN merge_hist
        ELSE LET removed == merge_hist.removed \cup consumed
                               \cup (Present(registers) \ Present(registers'))
             IN  IF inserted \cap removed # {} THEN Readded
                 ELSE [removed |-> removed, spent |-> merge_hist.spent \cup consumed]

\* a call other than the commit in progress has changed the registers
HistAfter(call) ==
    /\ commit_hist' =
          IF mode = "order" /\ committing # Idle
          THEN IF commit_hist.others = << >>
               THEN [commit_hist EXCEPT !.others = <<call>>]
               ELSE [commit_hist EXCEPT !.overflow = TRUE]
          ELSE commit_hist
    /\ reader_hist' =
          IF mode = "reader" /\ reading # Idle
          THEN reader_hist \cup {Snapshot(registers')}
          ELSE reader_hist
    /\ UNCHANGED codec

NoHist == [called |-> Idle, others |-> << >>, overflow |-> FALSE]

(***************************************************************************)
(* Init: SegmentManager::default()                                         *)
(***************************************************************************)
InitIn(m) ==
    /\ mode = m
    /\ registers = SegmentRegisters_default
    /\ committing = Idle
    /\ reading = Idle
    /\ last = [op |-> "new"]
    /\ scen = 0
    /\ commit_hist = NoHist
    /\ reader_hist = {}
    /\ merge_hist = NoMerge
    /\ codec = NoCodec

Init == InitIn("plain")

InitOrder == InitIn("order")

InitReader == InitIn("reader")

InitMerge == InitIn("merge")

(***************************************************************************)
(* Operations that are one critical section                                *)
(***************************************************************************)
WriteSegment(segment_id) ==
    LET call == [op |-> "write_segment", segment_id |-> segment_id]
    IN  /\ registers' = write_segment(registers, segment_id)
        /\ last' = [op |-> "write_segment", segment_id |-> segment_id]
        /\ scen' = ScenAfter(call)
        /\ HistAfter(call)
        /\ MergeAfter({}, {})
        /\ UNCHANGED <<mode, committing, reading>>

AddSegment(entry) ==
    LET call == [op |-> "add_segment", entry |-> entry]
    IN  /\ registers' = add_segment(registers, entry)
        /\ last' = [op |-> "add_segment", entry |-> entry,
                    replaced |-> Register_segment_entry(registers.uncommitted,
                                                        entry_segment_id(entry))]
        /\ scen' = ScenAfter(call)
        /\ HistAfter(call)
        /\ MergeAfter({entry_segment_id(entry)}, {})
        /\ UNCHANGED <<mode, committing, reading>>

Rollback ==
    LET call == [op |-> "rollback"]
    IN  /\ registers' = rollback(registers).registers
        /\ last' = [op |-> "rollback", returned |-> rollback(registers).result,
                    discarded |-> registers.uncommitted]
        /\ scen' = ScenAfter(call)
        /\ HistAfter(call)
        /\ MergeAfter({}, {})
        /\ UNCHANGED <<mode, committing, reading>>

\* which branch of start_merge / end_merge is taken for these ids
Branch(r, segment_ids) ==
    IF Register_contains_all(r.uncommitted, segment_ids) THEN "uncommitted"
    ELSE IF Register_contains_all(r.committed, segment_ids) THEN "committed"
    ELSE "rejected"

StartMerge(segment_ids) ==
    LET call == [op |-> "start_merge", segment_ids |-> segment_ids]
    IN  /\ registers' = start_merge(registers, segment_ids)
        /\ last' = [op |-> "start_merge", segment_ids |-> Range(segment_ids),
                    branch |-> Branch(registers, segment_ids)]
        /\ scen' = ScenAfter(call)
        /\ HistAfter(call)
        /\ MergeAfter({}, {})
        /\ UNCHANGED <<mode, committing, reading>>

EndMerge(merged_segment_metas, merged_segment_entry) ==
    LET call == [op |-> "end_merge", merged_segment_metas |-> merged_segment_metas,
                 merged_segment_entry |-> merged_segment_entry]
        segment_ids == merged_segment_ids(merged_segment_metas)
        took_effect == Branch(registers, segment_ids) # "rejected"
    IN  /\ registers' = end_merge(registers, merged_segment_metas, merged_segment_entry)
        /\ last' = [op |-> "end_merge",
                    segment_ids |-> Range(segment_ids),
                    entry |-> merged_segment_entry,
                    branch |-> Branch(registers, segment_ids)]
        /\ scen' = ScenAfter(call)
        /\ HistAfter(call)
        /\ IF took_effect
           THEN MergeAfter({entry_segment_id(merged_segment_entry)}, Range(segment_ids))
           ELSE MergeAfter({}, {})
        /\ UNCHANGED <<mode, committing, reading>>

(***************************************************************************)
(* commit: one read guard per meta, then the write guard                   *)
(***************************************************************************)
CommitCall(segment_metas) ==
    /\ committing = Idle
    /\ committing' = [pc |-> "read", segment_metas |-> segment_metas, entries |-> << >>]
    /\ last' = [op |-> "commit_call"]
    /\ scen' = ScenAfterCommitCall([op |-> "commit", segment_metas |-> segment_metas])
    /\ commit_hist' = IF mode = "order"
                      THEN [called |-> registers, others |-> << >>, overflow |-> FALSE]
                      ELSE commit_hist
    /\ UNCHANGED <<mode, registers, reading, reader_hist, merge_hist, codec>>

CommitReadState ==
    /\ committing # Idle
    /\ Len(committing.entries) < Len(committing.segment_metas)
    /\ committing' =
          [committing EXCEPT !.entries =
              Append(@, commit_entry(registers,
                            committing.segment_metas[Len(committing.entries) + 1]))]
    /\ last' = [op |-> "commit_read"]
    /\ UNCHANGED <<mode, registers, reading, scen, commit_hist, reader_hist,
                   merge_hist, codec>>

CommitWrite ==
    /\ committing # Idle
    /\ Len(committing.entries) = Len(committing.segment_metas)
    /\ registers' = commit_write(registers, committing.entries)
    /\ committing' = Idle
    /\ last' = [op |-> "commit", segment_metas |-> Range(committing.segment_metas),
                before |-> DOMAIN registers.uncommitted \cup DOMAIN registers.committed]
    /\ scen' = IF scen >= 0 THEN scen + 1 ELSE -1
    /\ commit_hist' = NoHist
    /\ reader_hist' = IF mode = "reader" /\ reading # Idle
                      THEN reader_hist \cup {Snapshot(registers')}
                      ELSE reader_hist
    /\ MergeAfter({entry_segment_id(committing.entries[i]) :
                        i \in 1..Len(committing.entries)}, {})
    /\ UNCHANGED <<mode, reading, codec>>

(***************************************************************************)
(* segment_entries: two read guards                                        *)
(***************************************************************************)
SegmentEntriesCall ==
    /\ mode = "reader"
    /\ reading = Idle
    /\ reading' = [pc |-> "uncommitted"]
    /\ reader_hist' = {Snapshot(registers)}
    /\ last' = [op |-> "segment_entries_call"]
    /\ UNCHANGED <<mode, registers, committing, scen, commit_hist, merge_hist, codec>>

SegmentEntriesReadUncommitted ==
    /\ reading # Idle
    /\ reading.pc = "uncommitted"
    /\ reading' = [pc |-> "committed",
                   segment_entries |-> Register_segment_entries(registers.uncommitted)]
    /\ last' = [op |-> "segment_entries_read"]
    /\ UNCHANGED <<mode, registers, committing, scen, commit_hist, reader_hist,
                   merge_hist, codec>>

SegmentEntriesReadCommitted ==
    /\ reading # Idle
    /\ reading.pc = "committed"
    /\ reading' = Idle
    /\ last' = [op |-> "segment_entries",
                returned |-> <<reading.segment_entries,
                               Register_segment_entries(registers.committed)>>,
                existed |-> reader_hist]
    /\ reader_hist' = {}
    /\ UNCHANGED <<mode, registers, committing, scen, commit_hist, merge_hist, codec>>

(***************************************************************************)
(* The codec at work: an encoder writes one block or two into a stream,    *)
(* a decoder reads them back in order                                      *)
(***************************************************************************)
Values == 0..MaxValue

Blocks == [1..NUM_DOCS_PER_BLOCK -> Values]

SortedBlocks ==
    {vals \in Blocks : \A i \in 1..(NUM_DOCS_PER_BLOCK - 1) : vals[i] <= vals[i + 1]}

InitCodec ==
    /\ mode = "codec"
    /\ registers = SegmentRegisters_default
    /\ committing = Idle
    /\ reading = Idle
    /\ last = [op |-> "new"]
    /\ scen = 0
    /\ commit_hist = NoHist
    /\ reader_hist = {}
    /\ merge_hist = NoMerge
    /\ codec = [pc |-> "first", encoder |-> BlockEncoder_new,
                decoder |-> BlockDecoder_new, blocks |-> << >>,
                stream |-> << >>, rest |-> << >>, decoded |-> 0]

\* the encoder has returned these bytes for this block
Encoded(block, compressed) ==
    [codec EXCEPT !.pc = IF codec.pc = "first" THEN "second" ELSE "decoding",
                  !.encoder = compressed.encoder,
                  !.blocks = Append(@, [block EXCEPT !.bytes = compressed.returned]),
                  !.stream = @ \o compressed.returned,
                  !.rest = @ \o compressed.returned]

CompressBlockSorted(vals, offset) ==
    /\ mode = "codec"
    /\ codec.pc \in {"first", "second"}
    /\ codec' = Encoded([vals |-> vals, offset |-> offset, sorted |-> TRUE,
                         bytes |-> << >>],
                        compress_block_sorted(codec.encoder, vals, offset))
    /\ UNCHANGED <<mode, registers, committing, reading, last, scen,
                   commit_hist, reader_hist, merge_hist>>

CompressBlockUnsorted(vals) ==
    /\ mode = "codec"
    /\ codec.pc \in {"first", "second"}
    /\ codec' = Encoded([vals |-> vals, offset |-> 0, sorted |-> FALSE,
                         bytes |-> << >>],
                        compress_block_unsorted(codec.encoder, vals))
    /\ UNCHANGED <<mode, registers, committing, reading, last, scen,
                   commit_hist, reader_hist, merge_hist>>

\* the stream ends after its first block
EndStream ==
    /\ mode = "codec"
    /\ codec.pc = "second"
    /\ codec' = [codec EXCEPT !.pc = "decoding"]
    /\ UNCHANGED <<mode, registers, committing, reading, last, scen,
                   commit_hist, reader_hist, merge_hist>>

\* the decoder has read one more block
Decoded(uncompressed) ==
    [codec EXCEPT !.decoder = uncompressed.decoder,
                  !.rest = uncompressed.returned,
                  !.decoded = @ + 1]

UncompressBlockSorted ==
    /\ mode = "codec"
    /\ codec.pc = "decoding"
    /\ codec.decoded < Len(codec.blocks)
    /\ codec.blocks[codec.decoded + 1].sorted
    /\ codec' = Decoded(uncompress_block_sorted(codec.decoder, codec.rest,
                            codec.blocks[codec.decoded + 1].offset))
    /\ UNCHANGED <<mode, registers, committing, reading, last, scen,
                   commit_hist, reader_hist, merge_hist>>

UncompressBlockUnsorted ==
    /\ mode = "codec"
    /\ codec.pc = "decoding"
    /\ codec.decoded < Len(codec.blocks)
    /\ ~codec.blocks[codec.decoded + 1].sorted
    /\ codec' = Decoded(uncompress_block_unsorted(codec.decoder, codec.rest))
    /\ UNCHANGED <<mode, registers, committing, reading, last, scen,
                   commit_hist, reader_hist, merge_hist>>

(***************************************************************************)
(* Specifications                                                          *)
(***************************************************************************)
Next ==
    \/ \E id \in Ids : WriteSegment(id)
    \/ \E e \in Entries : AddSegment(e)
    \/ Rollback
    \/ \E ids \in MergeLists(Ids) : StartMerge(ids)
    \/ \E ms \in MergeLists(Metas) : \E e \in Entries : EndMerge(ms, e)
    \/ \E ms \in SeqsUpTo(Metas, MaxCommit) : CommitCall(ms)
    \/ CommitReadState
    \/ CommitWrite

NextReader ==
    \/ Next
    \/ SegmentEntriesCall
    \/ SegmentEntriesReadUncommitted
    \/ SegmentEntriesReadCommitted

Spec == Init /\ [][Next]_vars

SpecOrder == InitOrder /\ [][Next]_vars

SpecReader == InitReader /\ [][NextReader]_vars

SpecMerge == InitMerge /\ [][Next]_vars

NextCodec ==
    \/ \E vals \in SortedBlocks : \E offset \in 0..vals[1] :
          CompressBlockSorted(vals, offset)
    \/ \E vals \in Blocks : CompressBlockUnsorted(vals)
    \/ EndStream
    \/ UncompressBlockSorted
    \/ UncompressBlockUnsorted

SpecCodec == InitCodec /\ [][NextCodec]_vars

(***************************************************************************)
(* Vocabulary of the properties                                            *)
(***************************************************************************)
MetaIds(segment_metas) == {m.segment_id : m \in segment_metas}

Uncommitted == registers.uncommitted
Committed == registers.committed
Writing == registers.writing

\* the state a register holds for an id, None when the id is not in it
StateIn(register, id) ==
    IF id \in DOMAIN register THEN register[id].state ELSE None

\* the register with exactly the listed entries marked InMerge
Marked(register, ids) ==
    [id \in DOMAIN register |->
        IF id \in ids THEN [register[id] EXCEPT !.state = InMerge] ELSE register[id]]

TypeOK ==
    /\ mode \in {"plain", "order", "reader", "merge", "codec"}
    /\ DOMAIN Uncommitted \subseteq Ids
    /\ DOMAIN Committed \subseteq Ids
    /\ Writing \subseteq Ids
    /\ \A id \in DOMAIN Uncommitted :
          Uncommitted[id].meta.segment_id = id /\ Uncommitted[id].state \in SegmentState
    /\ \A id \in DOMAIN Committed :
          Committed[id].meta.segment_id = id /\ Committed[id].state \in SegmentState
    /\ scen \in -1..ScenarioLen

(***************************************************************************)
(* C1.  Exclusivity: no segment identifier is in more than one of the      *)
(* committed register, the uncommitted register and the writing set.       *)
(* The code does not keep it: add_segment and write_segment do not look at *)
(* the committed register, and commit does not look at the writing set.    *)
(***************************************************************************)
C1_Exclusivity ==
    \A id \in SegmentIds :
        Cardinality({k \in {"committed", "uncommitted", "writing"} :
            \/ k = "committed" /\ id \in DOMAIN Committed
            \/ k = "uncommitted" /\ id \in DOMAIN Uncommitted
            \/ k = "writing" /\ id \in Writing}) <= 1

(***************************************************************************)
(* C2.  Atomic end_merge: an end_merge whose input identifiers are neither *)
(* all in the uncommitted register nor all in the committed register       *)
(* leaves both registers and the writing set unchanged.                    *)
(***************************************************************************)
C2_AtomicEndMerge ==
    [][ (/\ last'.op = "end_merge"
         /\ ~ (last'.segment_ids \subseteq DOMAIN Uncommitted)
         /\ ~ (last'.segment_ids \subseteq DOMAIN Committed))
        => registers' = registers ]_vars

\* an end_merge over two ids, one in a register and one in none, has run
C2_Witness ==
    /\ last.op = "end_merge"
    /\ \E x, y \in last.segment_ids :
          /\ x \in DOMAIN Uncommitted \cup DOMAIN Committed
          /\ y \notin DOMAIN Uncommitted \cup DOMAIN Committed
    /\ last.branch = "rejected"

(***************************************************************************)
(* C3.  Ordering guarantee: when one other mutating call runs while a      *)
(* commit is in progress, the registers the commit leaves are those of the *)
(* two calls applied one after the other, in one of the two orders.        *)
(* The code does not keep it: commit reads the segment states before it    *)
(* takes the write guard.                                                  *)
(***************************************************************************)
C3_Serializable ==
    [][ (/\ last'.op = "commit"
         /\ Len(commit_hist.others) = 1
         /\ ~ commit_hist.overflow)
        => LET other == commit_hist.others[1]
               called == commit_hist.called
               metas == committing.segment_metas
           IN  registers' \in {Apply(other, commit(called, metas)),
                               commit(Apply(other, called), metas)} ]_vars

(***************************************************************************)
(* C4.  Commit preserves merge state: a segment that is InMerge in the     *)
(* uncommitted or the committed register when commit(metas) is called with *)
(* its meta is InMerge in the committed register when the commit is done.  *)
(* The code does not keep it: the lookup prefers the committed register,   *)
(* where the same identifier can be Ready (C1), and the states are read    *)
(* after the call began, when the segment can be gone (C3).                *)
(***************************************************************************)
C4_CommitPreservesMergeState ==
    [][ last'.op = "commit"
        => \A id \in MetaIds(last'.segment_metas) :
              LET called == commit_hist.called
              IN  (\/ StateIn(called.uncommitted, id) = InMerge
                   \/ StateIn(called.committed, id) = InMerge)
                  => StateIn(registers'.committed, id) = InMerge ]_vars

(***************************************************************************)
(* C5.  Snapshot consistency of segment_entries: what it returns is the    *)
(* uncommitted entries followed by the committed entries of one state of   *)
(* the manager that existed between the call and its return.               *)
(* The code does not keep it: the two registers are read under two guards. *)
(***************************************************************************)
C5_SegmentEntriesSnapshot ==
    last.op = "segment_entries"
    => \E s \in last.existed :
          last.returned = <<Register_segment_entries(s[1]),
                            Register_segment_entries(s[2])>>

(***************************************************************************)
(* C6.  get_segments: no segment identifier is both in the committed list  *)
(* and in the uncommitted list it returns.                                 *)
(* The code does not keep it, for the reason of C1.                        *)
(***************************************************************************)
C6_GetSegmentsDisjoint ==
    LET segments == get_segments(registers)
    IN  {m.segment_id : m \in segments[1]} \cap {m.segment_id : m \in segments[2]} = {}

(***************************************************************************)
(* C7.  Commit replaces the visible segment set: when commit(metas) is     *)
(* done the committed register holds exactly the identifiers of metas,     *)
(* each with its meta, the uncommitted register is empty, and a segment    *)
(* that was in a register and is not in metas is in neither.               *)
(***************************************************************************)
C7_CommitReplaces ==
    [][ last'.op = "commit"
        => /\ DOMAIN registers'.committed = MetaIds(last'.segment_metas)
           /\ \A id \in DOMAIN registers'.committed :
                 registers'.committed[id].meta \in last'.segment_metas
           /\ DOMAIN registers'.uncommitted = {}
           /\ \A id \in (DOMAIN Uncommitted \cup DOMAIN Committed)
                            \ MetaIds(last'.segment_metas) :
                 id \notin DOMAIN registers'.committed \cup DOMAIN registers'.uncommitted
      ]_vars

\* a commit has dropped a segment and kept another
C7_Witness ==
    /\ last.op = "commit"
    /\ last.before \ MetaIds(last.segment_metas) # {}
    /\ last.before \cap MetaIds(last.segment_metas) # {}
    /\ DOMAIN Committed = MetaIds(last.segment_metas)

(***************************************************************************)
(* C8.  Rollback returns exactly the identifiers of the uncommitted        *)
(* register (those InMerge too), empties it, and leaves the committed      *)
(* register as it was.                                                     *)
(***************************************************************************)
C8_Rollback ==
    [][ last'.op = "rollback"
        => /\ last'.returned = DOMAIN Uncommitted
           /\ DOMAIN registers'.uncommitted = {}
           /\ registers'.committed = Committed ]_vars

\* a rollback has discarded an InMerge segment next to another, committed one
C8_Witness ==
    /\ last.op = "rollback"
    /\ \E x \in last.returned : last.discarded[x].state = InMerge
    /\ \E y \in DOMAIN Committed : y \notin last.returned
    /\ DOMAIN Uncommitted = {}

(***************************************************************************)
(* C9.  start_merge is all-or-nothing and stays in one register: ids all   *)
(* in the uncommitted register are marked InMerge there and nothing else   *)
(* changes; else ids all in the committed register are marked there and    *)
(* nothing else changes; else nothing changes at all.                      *)
(***************************************************************************)
C9_StartMerge ==
    [][ last'.op = "start_merge"
        => LET ids == last'.segment_ids
           IN  IF ids \subseteq DOMAIN Uncommitted
               THEN registers' = [registers EXCEPT
                                     !.uncommitted = Marked(Uncommitted, ids)]
               ELSE IF ids \subseteq DOMAIN Committed
               THEN registers' = [registers EXCEPT
                                     !.committed = Marked(Committed, ids)]
               ELSE registers' = registers ]_vars

\* a start_merge over an uncommitted and a committed segment has run and
\* both are still Ready
C9_Witness ==
    /\ last.op = "start_merge"
    /\ \E x, y \in last.segment_ids :
          /\ x \in DOMAIN Uncommitted /\ x \notin DOMAIN Committed
          /\ y \in DOMAIN Committed /\ y \notin DOMAIN Uncommitted
          /\ Uncommitted[x].state = Ready
          /\ Committed[y].state = Ready

(***************************************************************************)
(* C10.  Lifecycle scenario, from an empty manager:                        *)
(* write_segment(A); add_segment(entry(A)) leaves A in uncommitted and not *)
(* in writing; commit([meta(A)]) leaves A Ready in committed and           *)
(* uncommitted empty; start_merge([A]) leaves A InMerge in committed;      *)
(* end_merge([meta(A)], entry(B)) leaves only B, Ready, in committed and A *)
(* in no register.                                                         *)
(***************************************************************************)
C10_Lifecycle ==
    /\ scen = 2 => "A" \in DOMAIN Uncommitted /\ "A" \notin Writing
    /\ scen = 3 => /\ StateIn(Committed, "A") = Ready
                   /\ DOMAIN Uncommitted = {}
    /\ scen = 4 => StateIn(Committed, "A") = InMerge
    /\ scen = 5 => /\ DOMAIN Committed = {"B"}
                   /\ Committed["B"].state = Ready
                   /\ "A" \notin DOMAIN Uncommitted

\* the scenario has been run to its end
C10_Witness == scen = ScenarioLen

(***************************************************************************)
(* C11.  list_files protects every tracked segment: it is the metadata     *)
(* file path together with the files of every segment in the committed     *)
(* register, the uncommitted register and the writing set; the metadata    *)
(* path is there even when all three are empty.                            *)
(***************************************************************************)
FilesOf(id) == {<<id, component>> : component \in SegmentComponents}

C11_ListFiles ==
    /\ list_files(registers) =
          {META_FILEPATH}
             \cup UNION {FilesOf(id) :
                            id \in DOMAIN Committed \cup DOMAIN Uncommitted \cup Writing}
    /\ META_FILEPATH \in list_files(registers)

\* a segment is being written next to an uncommitted one, and nothing else
\* holds the files of the one being written
C11_Witness ==
    /\ \E id \in Writing :
          /\ id \notin DOMAIN Committed \cup DOMAIN Uncommitted
          /\ FilesOf(id) \subseteq list_files(registers)
    /\ DOMAIN Uncommitted # {}

(***************************************************************************)
(* C12.  InMerge is never reverted: once the entry of an identifier is     *)
(* InMerge in a register, no step makes an entry of that identifier Ready; *)
(* the entry stays InMerge until the identifier is out of both registers.  *)
(***************************************************************************)
InMergeIn(r, id) ==
    \/ StateIn(r.uncommitted, id) = InMerge
    \/ StateIn(r.committed, id) = InMerge

ReadyIn(r, id) ==
    \/ StateIn(r.uncommitted, id) = Ready
    \/ StateIn(r.committed, id) = Ready

C12_InMergeNeverReverted ==
    [][ \A id \in SegmentIds :
           (InMergeIn(registers, id) /\ ~ReadyIn(registers, id))
              => ~ReadyIn(registers', id) ]_vars

(***************************************************************************)
(* C13 as stated.  commit is the only operation that moves segments into   *)
(* the committed register: no write_segment, add_segment, rollback,        *)
(* start_merge or end_merge makes an identifier that was absent from the   *)
(* committed register present in it.                                       *)
(***************************************************************************)
C13_OnlyCommitCommits ==
    [][ last'.op \in {"write_segment", "add_segment", "rollback",
                      "start_merge", "end_merge"}
           => DOMAIN registers'.committed \subseteq DOMAIN registers.committed ]_vars

(***************************************************************************)
(* C13 amended.  No write_segment, add_segment, rollback or start_merge    *)
(* makes an identifier that was absent from the committed register present *)
(* in it; an end_merge does so only in its committed branch, and then only *)
(* for the identifier of its output entry.                                 *)
(***************************************************************************)
C13_CommitOrEndMergeCommits ==
    [][ LET entered == DOMAIN registers'.committed \ DOMAIN registers.committed
        IN  /\ last'.op \in {"write_segment", "add_segment", "rollback", "start_merge"}
                  => entered = {}
            /\ last'.op = "end_merge"
                  => /\ entered \subseteq {entry_segment_id(last'.entry)}
                     /\ entered # {} => last'.branch = "committed" ]_vars

\* the lifecycle's merge of committed segment A has put its output B, which
\* no commit was given, in the committed register
C13_Witness ==
    /\ scen = ScenarioLen
    /\ last.op = "end_merge"
    /\ last.branch = "committed"
    /\ entry_segment_id(last.entry) \in DOMAIN Committed \ last.segment_ids

(***************************************************************************)
(* C16.  add_segment(entry): afterwards the entry's identifier is not in   *)
(* the writing set and is in the uncommitted register with exactly the     *)
(* given entry, whatever entry it had there before; the committed register *)
(* and every other identifier of the uncommitted register and the writing  *)
(* set are as before.                                                      *)
(***************************************************************************)
C16_AddSegment ==
    [][ last'.op = "add_segment"
           => LET entry == last'.entry
                  id == entry_segment_id(entry)
              IN  /\ id \notin registers'.writing
                  /\ id \in DOMAIN registers'.uncommitted
                  /\ registers'.uncommitted[id] = entry
                  /\ registers'.committed = registers.committed
                  /\ registers'.writing \ {id} = registers.writing \ {id}
                  /\ DOMAIN registers'.uncommitted \ {id}
                        = DOMAIN registers.uncommitted \ {id}
                  /\ \A other \in DOMAIN registers.uncommitted \ {id} :
                        registers'.uncommitted[other] = registers.uncommitted[other] ]_vars

\* add_segment has replaced an InMerge entry by the entry it was given, next
\* to another segment that is still being written
C16_Witness ==
    /\ last.op = "add_segment"
    /\ last.replaced # NoEntry
    /\ last.replaced # last.entry
    /\ Uncommitted[entry_segment_id(last.entry)] = last.entry
    /\ Writing # {}

(***************************************************************************)
(* C17.  A successful end_merge stays in one register.  When every input   *)
(* is in the uncommitted register, the inputs are removed from it and the  *)
(* output inserted in it, and the committed register is unchanged;         *)
(* otherwise, when every input is in the committed register, the same      *)
(* happens there and the uncommitted register is unchanged.                *)
(***************************************************************************)
\* the register with the ids removed and then the entry inserted
Merged(register, ids, entry) ==
    [id \in (DOMAIN register \ ids) \cup {entry_segment_id(entry)} |->
        IF id = entry_segment_id(entry) THEN entry ELSE register[id]]

C17_EndMergeOneRegister ==
    [][ last'.op = "end_merge"
           => /\ last'.branch = "uncommitted"
                 => /\ registers'.uncommitted =
                          Merged(registers.uncommitted, last'.segment_ids, last'.entry)
                    /\ registers'.committed = registers.committed
              /\ last'.branch = "committed"
                 => /\ registers'.committed =
                          Merged(registers.committed, last'.segment_ids, last'.entry)
                    /\ registers'.uncommitted = registers.uncommitted ]_vars

\* a merge of committed segments has put its output in the committed register
\* while the uncommitted register holds another segment and not the output
C17_Witness ==
    /\ last.op = "end_merge"
    /\ last.branch = "committed"
    /\ last.segment_ids # {}
    /\ entry_segment_id(last.entry) \in DOMAIN Committed
    /\ entry_segment_id(last.entry) \notin DOMAIN Uncommitted
    /\ DOMAIN Uncommitted # {}

(***************************************************************************)
(* C18.  A segment being written is invisible.  write_segment changes only *)
(* the writing set; and an identifier that is in the writing set and in    *)
(* neither register has no state and no entry, is not among               *)
(* segment_entries(), get_segments() or committed_segment_metas(), while   *)
(* its files are in list_files().                                          *)
(***************************************************************************)
Invisible(r, id) ==
    /\ segment_state(r, id) = None
    /\ segment_entry(r, id) = NoEntry
    /\ \A entry \in segment_entries(r)[1] \cup segment_entries(r)[2] :
          entry_segment_id(entry) # id
    /\ \A segment_meta \in get_segments(r)[1] \cup get_segments(r)[2] :
          segment_meta.segment_id # id
    /\ \A segment_meta \in committed_segment_metas(r) : segment_meta.segment_id # id
    /\ SegmentMeta_list_files(SegmentMeta_new(id)) \subseteq list_files(r)

C18_WritingInvisible ==
    [][ /\ last'.op = "write_segment"
           => /\ registers'.uncommitted = registers.uncommitted
              /\ registers'.committed = registers.committed
              /\ registers'.writing = registers.writing \cup {last'.segment_id}
        /\ \A id \in registers'.writing \ Present(registers') :
              Invisible(registers', id) ]_vars

\* write_segment has just registered a segment no register holds, next to a
\* segment that is visible
C18_Witness ==
    /\ last.op = "write_segment"
    /\ last.segment_id \in Writing \ Present(registers)
    /\ Present(registers) # {}

(***************************************************************************)
(* C20.  The writing set is changed only by write_segment, which adds its  *)
(* identifier, and add_segment, which removes its entry's identifier;      *)
(* commit, rollback, start_merge and end_merge leave it exactly as it was. *)
(***************************************************************************)
C20_WritingFrame ==
    [][ /\ last'.op = "write_segment"
           => registers'.writing = registers.writing \cup {last'.segment_id}
        /\ last'.op = "add_segment"
           => registers'.writing = registers.writing \ {entry_segment_id(last'.entry)}
        /\ last'.op \notin {"write_segment", "add_segment"}
           => registers'.writing = registers.writing ]_vars

\* a commit has replaced the committed register while a segment was being
\* written, and the segment is still in the writing set
C20_Witness ==
    /\ last.op = "commit"
    /\ last.segment_metas # {}
    /\ Writing # {}
    /\ Writing \cap Present(registers) = {}

(***************************************************************************)
(* C19.  A segment is consumed by at most one merge: as long as no         *)
(* identifier has been inserted again after it was removed, an end_merge   *)
(* whose inputs include an identifier that an earlier end_merge consumed   *)
(* is rejected and changes nothing.                                        *)
(***************************************************************************)
C19_OneMergePerSegment ==
    [][ ( /\ last'.op = "end_merge"
          /\ merge_hist # Readded
          /\ merge_hist' # Readded
          /\ last'.segment_ids \cap merge_hist.spent # {} )
           => /\ last'.branch = "rejected"
              /\ registers' = registers ]_vars

(***************************************************************************)
(* C14.  Round trip, sorted: after uncompress_block_sorted has read the    *)
(* bytes compress_block_sorted returned for a non-decreasing block and an  *)
(* offset not above its first value, with that offset, output_array() is   *)
(* the block.                                                              *)
(***************************************************************************)
LastDecoded == codec.blocks[codec.decoded]

C14_RoundTripSorted ==
    (codec.pc = "decoding" /\ codec.decoded > 0 /\ LastDecoded.sorted)
       => output_array(codec.decoder) = LastDecoded.vals

\* a sorted block that rises, encoded from an offset above zero and below
\* its first value, has been read back
C14_Witness ==
    /\ codec.pc = "decoding"
    /\ codec.decoded > 0
    /\ LastDecoded.sorted
    /\ LastDecoded.offset > 0
    /\ LastDecoded.offset < LastDecoded.vals[1]
    /\ LastDecoded.vals[1] < LastDecoded.vals[NUM_DOCS_PER_BLOCK]
    /\ output_array(codec.decoder) = LastDecoded.vals

(***************************************************************************)
(* C15.  Stream framing: when the bytes of two blocks are concatenated,    *)
(* reading the first block returns exactly the bytes of the second as the  *)
(* remaining slice, and reading that remainder gives back the second block *)
(* and an empty remainder.                                                 *)
(***************************************************************************)
C15_StreamFraming ==
    (codec.pc = "decoding" /\ Len(codec.blocks) > 1)
       => /\ codec.stream = codec.blocks[1].bytes \o codec.blocks[Len(codec.blocks)].bytes
          /\ codec.decoded = 1 => codec.rest = codec.blocks[Len(codec.blocks)].bytes
          /\ codec.decoded > 1 => /\ output_array(codec.decoder) = LastDecoded.vals
                                  /\ codec.rest = << >>

\* two blocks whose encodings differ in length have both been read back
C15_Witness ==
    /\ codec.pc = "decoding"
    /\ codec.decoded > 1
    /\ Len(codec.blocks[1].bytes) # Len(LastDecoded.bytes)
    /\ codec.blocks[1].sorted
    /\ codec.blocks[1].vals # LastDecoded.vals
    /\ output_array(codec.decoder) = LastDecoded.vals
    /\ codec.rest = << >>

====
